---- MODULE Spec2Model ----
(***************************************************************************)
(* Excel BOQ parser (src/main.py): the row-visibility filter, the column   *)
(* role detector, the article code detector, the unit normaliser, the BOQ  *)
(* line classifier and the summary aggregator, as one state machine whose  *)
(* steps are the steps of parse_excel / parse_excel_transformed.           *)
(*                                                                         *)
(* A text is a sequence of characters; a character is a one-character      *)
(* string, except the three non-ASCII glyphs the code names, which are the *)
(* tokens "eacute", "sup2" and "sup3".  Python's None is the empty         *)
(* sequence << >> wherever a value is optional, and << x >> is the value x.*)
(***************************************************************************)
EXTENDS Integers, Sequences, FiniteSets, TLC

VARIABLES
  pc,                    \* where the request is: scan, return, rows, roles, lines, done
  file_extension,        \* "xlsx" (openpyxl branch) or "xls" (xlrd branch)
  sheet,                 \* the decoder's rows: [hidden, cells: [merged, value]]
  max_rows,              \* << >> (None) or << N >>
  quantity_header_hint,  \* << >> (None) or << text >>
  unit_header_hint,      \* << >> (None) or << text >>
  r,                     \* the decoder row the loop visits next (1-based)
  rows_out,              \* the rows kept so far
  row_count,             \* the returned "row_count"
  column_roles,          \* role -> column letter
  boq_lines,             \* one BoqLine per row of rows_out
  summary                \* the totals

vars == <<pc, file_extension, sheet, max_rows, quantity_header_hint,
          unit_header_hint, r, rows_out, row_count, column_roles, boq_lines,
          summary>>

(***************************************************************************)
(* Python str: characters, strip, lower, split/join, replace, "in".        *)
(***************************************************************************)
Whitespace == {" ", "\t", "\n"}

Digits == {"0", "1", "2", "3", "4", "5", "6", "7", "8", "9"}

UpperChars ==
  <<"A", "B", "C", "D", "E", "F", "G", "H", "I", "J", "K", "L", "M",
    "N", "O", "P", "Q", "R", "S", "T", "U", "V", "W", "X", "Y", "Z", "Eacute">>

LowerChars ==
  <<"a", "b", "c", "d", "e", "f", "g", "h", "i", "j", "k", "l", "m",
    "n", "o", "p", "q", "r", "s", "t", "u", "v", "w", "x", "y", "z", "eacute">>

\* [A-Z] of the regular expression: the ASCII capitals only.
AsciiUpper == {UpperChars[i] : i \in 1..26}

SetMin(S) == CHOOSE x \in S : \A y \in S : x <= y

SetMax(S) == CHOOSE x \in S : \A y \in S : x >= y

LowerChar(c) ==
  IF \E i \in 1..Len(UpperChars) : UpperChars[i] = c
    THEN LowerChars[CHOOSE i \in 1..Len(UpperChars) : UpperChars[i] = c]
    ELSE c

\* str.lower()
Lower(s) == [i \in 1..Len(s) |-> LowerChar(s[i])]

\* str.strip()
Strip(s) ==
  LET keep == {i \in 1..Len(s) : s[i] \notin Whitespace}
  IN  IF keep = {} THEN << >> ELSE SubSeq(s, SetMin(keep), SetMax(keep))

\* k in v  (Python substring test; the empty text is in every text)
Contains(k, v) ==
  \E i \in 0..(Len(v) - Len(k)) : SubSeq(v, i + 1, i + Len(k)) = k

\* str.replace(old, new), leftmost non-overlapping occurrences
RECURSIVE Replace(_, _, _)
Replace(s, old, new) ==
  IF Len(s) < Len(old) \/ old = << >> THEN s
  ELSE IF SubSeq(s, 1, Len(old)) = old
    THEN new \o Replace(SubSeq(s, Len(old) + 1, Len(s)), old, new)
    ELSE <<Head(s)>> \o Replace(Tail(s), old, new)

\* str.split() with no argument: the maximal runs of non-whitespace
RECURSIVE Split(_)
Split(s) ==
  IF s = << >> THEN << >>
  ELSE IF Head(s) \in Whitespace THEN Split(Tail(s))
  ELSE LET stop == SetMin({i \in 1..(Len(s) + 1) :
                             i = Len(s) + 1 \/ s[i] \in Whitespace})
       IN  <<SubSeq(s, 1, stop - 1)>> \o Split(SubSeq(s, stop, Len(s)))

\* " ".join(words)
RECURSIVE JoinSpace(_)
JoinSpace(words) ==
  IF words = << >> THEN << >>
  ELSE IF Len(words) = 1 THEN words[1]
  ELSE words[1] \o <<" ">> \o JoinSpace(Tail(words))

\* Python's < on str: by the first differing character, a proper prefix first.
\* Column letters are ASCII capitals, ordered as in UpperChars.
CharRank(c) == CHOOSE i \in 1..Len(UpperChars) : UpperChars[i] = c

RECURSIVE StrLess(_, _)
StrLess(a, b) ==
  IF b = << >> THEN FALSE
  ELSE IF a = << >> THEN TRUE
  ELSE IF Head(a) = Head(b) THEN StrLess(Tail(a), Tail(b))
  ELSE CharRank(Head(a)) < CharRank(Head(b))

(***************************************************************************)
(* Cell values: the decoder's typed values.  A number is an int or a float *)
(* of integral magnitude n; a bool is True (n = 1) or False (n = 0).       *)
(***************************************************************************)
NullV == [t |-> "null", s |-> << >>, n |-> 0]

StrV(s) == [t |-> "str", s |-> s, n |-> 0]

IntV(n) == [t |-> "int", s |-> << >>, n |-> n]

FloatV(n) == [t |-> "float", s |-> << >>, n |-> n]

BoolV(b) == [t |-> "bool", s |-> << >>, n |-> IF b THEN 1 ELSE 0]

DateV == [t |-> "date", s |-> << >>, n |-> 0]

RECURSIVE DecimalDigits(_)
DecimalDigits(n) ==
  LET d == <<"0", "1", "2", "3", "4", "5", "6", "7", "8", "9">>[(n % 10) + 1]
  IN  IF n < 10 THEN <<d>> ELSE DecimalDigits(n \div 10) \o <<d>>

\* str(value)
Str(v) ==
  CASE v.t = "str" -> v.s
    [] v.t = "int" -> DecimalDigits(v.n)
    [] v.t = "float" -> DecimalDigits(v.n) \o <<".", "0">>
    [] v.t = "bool" -> IF v.n = 1 THEN <<"T", "r", "u", "e">>
                                  ELSE <<"F", "a", "l", "s", "e">>
    [] v.t = "date" -> <<"2", "0", "2", "4", "-", "0", "1", "-", "1", "5", " ",
                         "0", "0", ":", "0", "0", ":", "0", "0">>
    [] OTHER -> <<"N", "o", "n", "e">>

\* isinstance(value, (int, float)): bool is a subclass of int in Python
IsIntOrFloat(v) == v.t \in {"int", "float", "bool"}

\* isinstance(value, str)
IsStr(v) == v.t = "str"

(***************************************************************************)
(* Configuration tables.                                                   *)
(***************************************************************************)
Roles == {"quantity", "unit", "unit_price", "amount", "weight_kg"}

HEADER_KEYWORDS(role) ==
  CASE role = "quantity" ->
         {<<"q", "u", "a", "n", "t", "i", "t", "eacute">>,
          <<"q", "t", "eacute">>,
          <<"q", "t", "e">>,
          <<"q", "t", "y">>,
          <<"h", "o", "e", "v", "e", "e", "l", "h", "e", "i", "d">>}
    [] role = "unit" ->
         {<<"u", "n", "i", "t", "eacute">>,
          <<"u", "n", "i", "t">>,
          <<"e", "e", "n", "h", "e", "i", "d">>,
          <<"u">>,
          <<"u", ".">>,
          <<"u", "n">>,
          <<"u", "n", ".">>}
    [] role = "unit_price" ->
         {<<"p", "u">>,
          <<"p", "r", "i", "x", " ", "u", "n", "i", "t", "a", "i", "r", "e">>,
          <<"u", "n", "i", "t", " ", "p", "r", "i", "c", "e">>,
          <<"e", "e", "n", "h", "e", "i", "d", "s", "p", "r", "i", "j", "s">>}
    [] role = "amount" ->
         {<<"m", "o", "n", "t", "a", "n", "t">>,
          <<"t", "o", "t", "a", "l">>,
          <<"t", "o", "t", "a", "a", "l">>,
          <<"a", "m", "o", "u", "n", "t">>,
          <<"s", "o", "m", "m", "e", "s">>}
    [] role = "weight_kg" ->
         {<<"k", "g">>,
          <<"p", "o", "i", "d", "s">>,
          <<"g", "e", "w", "i", "c", "h", "t">>}

\* rows[:30] of parse_excel_transformed
PREVIEW_ROWS == 30

(***************************************************************************)
(* ARTICLE_CODE_REGEX.match(v):  ^\d{3}(\.\d+)*(\.[A-Z])?\.$               *)
(* Each piece maps the set of positions the match can have reached to the  *)
(* set it can reach next; v matches when the end of v is reachable.        *)
(***************************************************************************)
\* one pass of the group (\.\d+): from p over "." and one or more digits
DotDigitsFrom(v, P) ==
  {e \in 1..(Len(v) + 1) :
     \E p \in P : /\ p <= Len(v)
                  /\ v[p] = "."
                  /\ e >= p + 2
                  /\ \A j \in (p + 1)..(e - 1) : v[j] \in Digits}

\* (\.\d+)* : zero or more passes
RECURSIVE DotDigitsStar(_, _)
DotDigitsStar(v, P) ==
  LET Q == P \cup DotDigitsFrom(v, P)
  IN  IF Q = P THEN P ELSE DotDigitsStar(v, Q)

\* faulty variant: every group of digits is \d{3}
ARTICLE_CODE_REGEX_D3(v) ==
  LET n == Len(v)
      D3At(p) == p + 2 <= n /\ \A j \in p..(p + 2) : v[j] \in Digits
      ends == {e \in 4..(n + 1) :
                 /\ D3At(1)
                 /\ (e - 4) % 4 = 0
                 /\ \A p \in 4..(e - 1) :
                      (p - 4) % 4 = 0 => v[p] = "." /\ D3At(p + 1)}
      opt == ends \cup {p + 2 : p \in {q \in ends : /\ q + 1 <= n
                                                    /\ v[q] = "."
                                                    /\ v[q + 1] \in AsciiUpper}}
      dot == {p + 1 : p \in {q \in opt : q <= n /\ v[q] = "."}}
  IN  \/ n + 1 \in dot
      \/ n >= 1 /\ n \in dot /\ v[n] = "\n"

ARTICLE_CODE_REGEX(v) ==
  LET n == Len(v)
      \* ^\d{3}
      d3 == IF n >= 3 /\ v[1] \in Digits /\ v[2] \in Digits /\ v[3] \in Digits
              THEN {4} ELSE {}
      star == DotDigitsStar(v, d3)
      \* (\.[A-Z])?
      opt == star \cup {p + 2 : p \in {q \in star : /\ q + 1 <= n
                                                    /\ v[q] = "."
                                                    /\ v[q + 1] \in AsciiUpper}}
      \* \.
      dot == {p + 1 : p \in {q \in opt : q <= n /\ v[q] = "."}}
  IN  \* $ : at the end, or just before a final newline
      \/ n + 1 \in dot
      \/ n >= 1 /\ n \in dot /\ v[n] = "\n"

(***************************************************************************)
(* Cells and rows as the adapter emits them.                               *)
(***************************************************************************)
\* openpyxl.utils.get_column_letter: 1 -> A, 26 -> Z, 27 -> AA, ...
RECURSIVE get_column_letter(_)
get_column_letter(col_index) ==
  LET last == <<UpperChars[((col_index - 1) % 26) + 1]>>
  IN  IF col_index <= 26 THEN last
      ELSE get_column_letter((col_index - 1) \div 26) \o last

\* the dict appended to cells
Cell(col_index, value) ==
  [col_index |-> col_index, col_letter |-> get_column_letter(col_index),
   value |-> value]

\* the value the xlsx branch keeps for a decoder cell: None for a MergedCell
XlsxValue(raw) == IF raw.merged THEN NullV ELSE raw.value

\* the value the xls branch keeps for a decoder cell
XlsValue(raw) == raw.value

\* xlsx: value is not None and str(value).strip() != ""
XlsxNonEmpty(value) == value # NullV /\ Strip(Str(value)) # << >>

\* xls: value not in (None, "") and str(value).strip() != ""
XlsNonEmpty(value) ==
  /\ ~(value = NullV \/ value = StrV(<< >>))
  /\ Strip(Str(value)) # << >>

\* the cells list built for decoder row r
RowCells(ext, raw_row) ==
  [c \in 1..Len(raw_row.cells) |->
     Cell(c, IF ext = "xls" THEN XlsValue(raw_row.cells[c])
                            ELSE XlsxValue(raw_row.cells[c]))]

\* not all_empty
RowNonEmpty(ext, cells) ==
  \E c \in 1..Len(cells) :
     IF ext = "xls" THEN XlsNonEmpty(cells[c].value)
                    ELSE XlsxNonEmpty(cells[c].value)

\* faulty variant: the hidden flag is never consulted
RowHiddenIgnored(raw_row) == FALSE

\* row_dim is not None and row_dim.hidden / row_info.hidden
RowHidden(raw_row) == raw_row.hidden

\* max_rows is not None and len(rows_out) >= max_rows
MaxRowsReached(limit, rows) == limit # << >> /\ Len(rows) >= limit[1]

(***************************************************************************)
(* detect_column_roles                                                     *)
(***************************************************************************)
\* every cell of the preview, row by row
RECURSIVE PreviewCells(_)
PreviewCells(rows) ==
  IF rows = << >> THEN << >> ELSE Head(rows).cells \o PreviewCells(Tail(rows))

\* v = str(raw).strip().lower(), and any(k in v for k in keywords)
KeywordHit(cell, role) ==
  /\ cell.value # NullV
  /\ LET v == Lower(Strip(Str(cell.value)))
     IN  v # << >> /\ \E k \in HEADER_KEYWORDS(role) : Contains(k, v)

\* roles[role]: the set of columns recorded for the role
RoleColumns(rows_preview, role) ==
  LET cells == PreviewCells(rows_preview)
  IN  {cells[i].col_letter : i \in {j \in 1..Len(cells) : KeywordHit(cells[j], role)}}

\* faulty variant: the first column in spreadsheet order (shorter letters first)
SortedFirstByColumn(cols) ==
  CHOOSE c \in cols :
     \A d \in cols : \/ d = c
                     \/ Len(c) < Len(d)
                     \/ Len(c) = Len(d) /\ StrLess(c, d)

\* sorted(cols)[0]
SortedFirst(cols) == CHOOSE c \in cols : \A d \in cols : d = c \/ StrLess(c, d)

\* simplified = {role: sorted(cols)[0] for role, cols in roles.items()}
Simplified(rows_preview) ==
  [role \in {ro \in Roles : RoleColumns(rows_preview, ro) # {}} |->
     SortedFirst(RoleColumns(rows_preview, role))]

\* hint_norm = hint.strip().lower()
HintNorm(hint) == Lower(Strip(hint))

\* v_norm = " ".join(v.replace("|", " ").split()).lower()
CellNorm(v) == Lower(JoinSpace(Split(Replace(v, <<"|">>, <<" ">>))))

\* the loop of find_col_by_hint over the cells in order: the first hit returns
RECURSIVE FindInCells(_, _)
FindInCells(hint_norm, cells) ==
  IF cells = << >> THEN << >>
  ELSE IF /\ Head(cells).value # NullV
          /\ Contains(hint_norm, CellNorm(Str(Head(cells).value)))
    THEN <<Head(cells).col_letter>>
    ELSE FindInCells(hint_norm, Tail(cells))

find_col_by_hint(hint, rows_preview) ==
  FindInCells(HintNorm(hint), PreviewCells(rows_preview))

\* if hint: col = find_col_by_hint(hint); if col: simplified[role] = col
HintOverride(simplified, role, hint, rows_preview) ==
  IF hint = << >> \/ hint[1] = << >> THEN simplified
  ELSE LET col == find_col_by_hint(hint[1], rows_preview)
       IN  IF col = << >> THEN simplified
           ELSE [ro \in DOMAIN simplified \cup {role} |->
                   IF ro = role THEN col[1] ELSE simplified[ro]]

detect_column_roles(rows_preview, q_hint, u_hint) ==
  HintOverride(HintOverride(Simplified(rows_preview), "quantity", q_hint, rows_preview),
               "unit", u_hint, rows_preview)

(***************************************************************************)
(* detect_article_code, normalize_unit, cell_by_col_letter, to_boq_line    *)
(***************************************************************************)
RECURSIVE detect_article_code(_)
detect_article_code(cells) ==
  IF cells = << >> THEN << >>
  ELSE IF Head(cells).value # NullV /\ ARTICLE_CODE_REGEX(Strip(Str(Head(cells).value)))
    THEN <<Strip(Str(Head(cells).value))>>
    ELSE detect_article_code(Tail(cells))

normalize_unit(u) ==
  IF u = NullV THEN << >>
  ELSE LET v == Replace(Replace(Lower(Strip(Str(u))),
                                <<"m", "sup2">>, <<"m", "2">>),
                        <<"m", "sup3">>, <<"m", "3">>)
       IN  IF v = << >> THEN << >> ELSE <<v>>

RECURSIVE cell_by_col_letter(_, _)
cell_by_col_letter(cells, col_letter) ==
  IF cells = << >> THEN << >>
  ELSE IF Head(cells).col_letter = col_letter THEN <<Head(cells)>>
  ELSE cell_by_col_letter(Tail(cells), col_letter)

\* column_roles.get(role)
RoleGet(roles, role) == IF role \in DOMAIN roles THEN <<roles[role]>> ELSE << >>

\* the unit block of to_boq_line
UnitOf(cells, roles) ==
  LET unit_col == RoleGet(roles, "unit")
      c == IF unit_col = << >> THEN << >> ELSE cell_by_col_letter(cells, unit_col[1])
  IN  IF c # << >> /\ c[1].value # NullV THEN normalize_unit(c[1].value) ELSE << >>

\* the quantity block and the weight block of to_boq_line
NumberOf(cells, roles, role) ==
  LET col == RoleGet(roles, role)
      c == IF col = << >> THEN << >> ELSE cell_by_col_letter(cells, col[1])
  IN  IF c # << >> /\ IsIntOrFloat(c[1].value) THEN <<c[1].value.n>> ELSE << >>

\* faulty variant: a cell that is the article code is not a description
HasDescriptionNotCode(cells) ==
  \E i \in 1..Len(cells) :
     /\ IsStr(cells[i].value)
     /\ Len(Strip(Str(cells[i].value))) > 5
     /\ ~ARTICLE_CODE_REGEX(Strip(Str(cells[i].value)))

HasDescription(cells) ==
  \E i \in 1..Len(cells) : IsStr(cells[i].value) /\ Len(Strip(Str(cells[i].value))) > 5

HasNumeric(cells) == \E i \in 1..Len(cells) : IsIntOrFloat(cells[i].value)

\* faulty variant: the role-derived signals are not required
IsBoqLineNoSignal(has_description, has_numeric, article_code, unit, quantity, weight_kg) ==
  has_description /\ has_numeric

IsBoqLine(has_description, has_numeric, article_code, unit, quantity, weight_kg) ==
  /\ has_description
  /\ has_numeric
  /\ (article_code # << >> \/ unit # << >> \/ quantity # << >> \/ weight_kg # << >>)

to_boq_line(row, roles) ==
  LET cells == row.cells
      article_code == detect_article_code(cells)
      unit == UnitOf(cells, roles)
      quantity == NumberOf(cells, roles, "quantity")
      weight_kg == NumberOf(cells, roles, "weight_kg")
  IN  [row_index |-> row.row_index,
       is_boq_line |-> IsBoqLine(HasDescription(cells), HasNumeric(cells),
                                 article_code, unit, quantity, weight_kg),
       article_code |-> article_code,
       unit |-> unit,
       quantity |-> quantity,
       weight_kg |-> weight_kg]

(***************************************************************************)
(* summarize_boq_lines                                                     *)
(***************************************************************************)
\* faulty variant: the is_boq_line test is missing
AddLineUnfiltered(totals, line) ==
  [total_quantity |-> totals.total_quantity
                        + (IF line.quantity # << >> THEN line.quantity[1] ELSE 0),
   total_weight_kg |-> totals.total_weight_kg
                         + (IF line.weight_kg # << >> THEN line.weight_kg[1] ELSE 0)]

\* one pass of the loop body over line, from the totals so far
AddLine(totals, line) ==
  IF ~line.is_boq_line THEN totals
  ELSE [total_quantity |-> totals.total_quantity
                             + (IF line.quantity # << >> THEN line.quantity[1] ELSE 0),
        total_weight_kg |-> totals.total_weight_kg
                             + (IF line.weight_kg # << >> THEN line.weight_kg[1] ELSE 0)]

RECURSIVE FoldLines(_, _)
FoldLines(totals, lines) ==
  IF lines = << >> THEN totals ELSE FoldLines(AddLine(totals, Head(lines)), Tail(lines))

summarize_boq_lines(lines) ==
  FoldLines([total_quantity |-> 0, total_weight_kg |-> 0], lines)

(***************************************************************************)
(* The request as a state machine.                                         *)
(*   scan   : the for loop of extract_visible_rows_from_active_sheet       *)
(*   return : the loop is left (exhausted or break), the dict is returned  *)
(*   rows   : parse_excel_transformed holds data["rows"]                   *)
(*   roles  : column_roles is computed                                     *)
(*   lines  : boq_lines is computed                                        *)
(*   done   : summary is computed                                          *)
(***************************************************************************)
\* rows[:n]
Slice(rows, n) == SubSeq(rows, 1, IF Len(rows) < n THEN Len(rows) ELSE n)

NoTotals == [total_quantity |-> 0, total_weight_kg |-> 0]

\* what a request starts from, whatever its input
Fresh ==
  /\ r = 1
  /\ rows_out = << >>
  /\ row_count = 0
  /\ column_roles = << >>
  /\ boq_lines = << >>
  /\ summary = NoTotals

\* one pass of the row loop: hidden rows and empty rows are skipped, a kept row
\* is appended and the loop breaks once max_rows rows are kept
ScanRow ==
  /\ pc = "scan"
  /\ r <= Len(sheet)
  /\ LET cells == RowCells(file_extension, sheet[r])
         kept == ~RowHidden(sheet[r]) /\ RowNonEmpty(file_extension, cells)
         out == IF kept THEN Append(rows_out, [row_index |-> r, cells |-> cells])
                        ELSE rows_out
     IN  /\ rows_out' = out
         /\ IF kept /\ MaxRowsReached(max_rows, out)
              THEN pc' = "return" /\ r' = r
              ELSE pc' = "scan" /\ r' = r + 1
  /\ UNCHANGED <<file_extension, sheet, max_rows, quantity_header_hint,
                 unit_header_hint, row_count, column_roles, boq_lines, summary>>

\* the iterator is exhausted
ScanEnd ==
  /\ pc = "scan"
  /\ r > Len(sheet)
  /\ pc' = "return"
  /\ UNCHANGED <<file_extension, sheet, max_rows, quantity_header_hint,
                 unit_header_hint, r, rows_out, row_count, column_roles,
                 boq_lines, summary>>

\* return {"sheet_name": ..., "row_count": len(rows_out), "rows": rows_out}
ScanReturn ==
  /\ pc = "return"
  /\ row_count' = Len(rows_out)
  /\ pc' = "rows"
  /\ UNCHANGED <<file_extension, sheet, max_rows, quantity_header_hint,
                 unit_header_hint, r, rows_out, column_roles, boq_lines, summary>>

\* rows_preview = rows[:30]; column_roles = detect_column_roles(rows_preview, ...)
DetectRoles ==
  /\ pc = "rows"
  /\ column_roles' = detect_column_roles(Slice(rows_out, PREVIEW_ROWS),
                                         quantity_header_hint, unit_header_hint)
  /\ pc' = "roles"
  /\ UNCHANGED <<file_extension, sheet, max_rows, quantity_header_hint,
                 unit_header_hint, r, rows_out, row_count, boq_lines, summary>>

\* boq_lines = [to_boq_line(row, column_roles) for row in rows]
BuildLines ==
  /\ pc = "roles"
  /\ boq_lines' = [k \in 1..Len(rows_out) |-> to_boq_line(rows_out[k], column_roles)]
  /\ pc' = "lines"
  /\ UNCHANGED <<file_extension, sheet, max_rows, quantity_header_hint,
                 unit_header_hint, r, rows_out, row_count, column_roles, summary>>

\* summary = summarize_boq_lines(boq_lines)
Summarize ==
  /\ pc = "lines"
  /\ summary' = summarize_boq_lines(boq_lines)
  /\ pc' = "done"
  /\ UNCHANGED <<file_extension, sheet, max_rows, quantity_header_hint,
                 unit_header_hint, r, rows_out, row_count, column_roles, boq_lines>>

Next ==
  \/ ScanRow
  \/ ScanEnd
  \/ ScanReturn
  \/ DetectRoles
  \/ BuildLines
  \/ Summarize

(***************************************************************************)
(* Spec: a whole request on a small sheet of two columns, by either        *)
(* decoder, with and without max_rows, without hints.                      *)
(***************************************************************************)
MaxSheetRows == 3

MaxMaxRows == 2

\* all sequences over S of length at most n
SeqsUpTo(S, n) == UNION {[1..k -> S] : k \in 0..n}

Plain(value) == [merged |-> FALSE, value |-> value]

Merged == [merged |-> TRUE, value |-> NullV]

\* 40 characters, with the letter u
DescU ==
  <<"E", "x", "c", "a", "v", "a", "t", "i", "o", "n", " ", "p", "o", "u",
    "r", " ", "f", "o", "n", "d", "a", "t", "i", "o", "n", "s", " ",
    "d", "u", " ", "b", "a", "t", "i", "m", "e", "n", "t", " ", "A">>

\* 40 characters, with no keyword of any role
DescX ==
  <<"D", "a", "l", "l", "e", " ", "e", "n", " ", "b", "e", "t", "o", "n",
    " ", "a", "r", "m", "e", " ", "l", "i", "s", "s", "e", " ", "f",
    "i", "n", "i", "t", "i", "o", "n", " ", "s", "o", "l", " ", "B">>

SheetRows ==
  {[hidden |-> FALSE, cells |-> <<Plain(NullV), Plain(NullV)>>],
   [hidden |-> FALSE, cells |-> <<Plain(StrV(<<" ", " ">>)), Plain(StrV(<< >>))>>],
   [hidden |-> FALSE, cells |-> <<Merged, Plain(StrV(<<"\t">>))>>],
   [hidden |-> TRUE, cells |-> <<Plain(StrV(DescU)), Plain(IntV(7))>>],
   [hidden |-> FALSE, cells |-> <<Plain(StrV(DescU)), Plain(FloatV(12))>>],
   [hidden |-> FALSE, cells |-> <<Plain(StrV(DescX)), Plain(IntV(0))>>],
   [hidden |-> FALSE, cells |-> <<Plain(NullV), Plain(StrV(<<" ", "Q", "t", "y">>))>>]}

Init ==
  /\ pc = "scan"
  /\ file_extension \in {"xlsx", "xls"}
  /\ sheet \in SeqsUpTo(SheetRows, MaxSheetRows)
  /\ max_rows \in {<< >>} \cup {<<n>> : n \in 0..MaxMaxRows}
  /\ quantity_header_hint = << >>
  /\ unit_header_hint = << >>
  /\ Fresh

Spec == Init /\ [][Next]_vars

(***************************************************************************)
(* The article-code pattern stated on the groups between the dots.         *)
(***************************************************************************)
\* v.split(".")
RECURSIVE SplitDot(_)
SplitDot(v) ==
  IF \A i \in 1..Len(v) : v[i] # "." THEN <<v>>
  ELSE LET d == SetMin({i \in 1..Len(v) : v[i] = "."})
       IN  <<SubSeq(v, 1, d - 1)>> \o SplitDot(SubSeq(v, d + 1, Len(v)))

DigitGroup(g) == g # << >> /\ \A i \in 1..Len(g) : g[i] \in Digits

LetterGroup(g) == Len(g) = 1 /\ g[1] \in AsciiUpper

\* groups of digits separated by ".", then optionally "." and one capital,
\* then a final "."; Wide(g) says which digit groups after the first are allowed
GroupPattern(v, Wide(_)) ==
  /\ v # << >>
  /\ v[Len(v)] = "."
  /\ LET g == SplitDot(SubSeq(v, 1, Len(v) - 1))
         n == Len(g)
     IN  /\ DigitGroup(g[1]) /\ Len(g[1]) = 3
         /\ \A i \in 2..(n - 1) : DigitGroup(g[i]) /\ Wide(g[i])
         /\ n >= 2 => \/ DigitGroup(g[n]) /\ Wide(g[n])
                      \/ LetterGroup(g[n])

\* every group of digits has exactly three digits
ThreeDigitGroups(v) == LET Wide(g) == Len(g) = 3 IN GroupPattern(v, Wide)

\* the first group has exactly three digits, the later ones one or more
ThreeThenAnyDigitGroups(v) == LET Wide(g) == TRUE IN GroupPattern(v, Wide)

(***************************************************************************)
(* Claims checked under Spec.                                              *)
(***************************************************************************)
IsNumber(value) == value.t \in {"int", "float"}

BlankValue(value) == value = NullV \/ Strip(Str(value)) = << >>

\* the decoder rows that are not hidden and have a cell that is not blank
SurvivingRows ==
  {i \in 1..Len(sheet) :
     /\ ~sheet[i].hidden
     /\ \E c \in 1..Len(sheet[i].cells) : ~BlankValue(sheet[i].cells[c].value)}

RowIndexes(rows) == {rows[j].row_index : j \in 1..Len(rows)}

Ascending(rows) ==
  \A j \in 1..(Len(rows) - 1) : rows[j].row_index < rows[j + 1].row_index

SameCells(rows) ==
  \A j \in 1..Len(rows) :
     /\ rows[j].row_index \in 1..Len(sheet)
     /\ Len(rows[j].cells) = Len(sheet[rows[j].row_index].cells)
     /\ \A c \in 1..Len(rows[j].cells) :
          rows[j].cells[c].value = sheet[rows[j].row_index].cells[c].value

\* C3: without max_rows the rows kept are, at every point of the scan, decoder
\* rows that are neither hidden nor all-blank, in ascending row order and with
\* their cells; once the loop is left they are all of those rows.
C3_VisibleNonBlankRows ==
  max_rows = << >> =>
    /\ RowIndexes(rows_out) \subseteq SurvivingRows
    /\ Ascending(rows_out)
    /\ SameCells(rows_out)
    /\ pc # "scan" => RowIndexes(rows_out) = SurvivingRows

\* C3 witness: a finished unbounded scan of a sheet with a hidden row that has
\* content, a visible blank row and a kept row
C3_Witness ==
  /\ pc = "rows"
  /\ max_rows = << >>
  /\ \E i \in 1..Len(sheet) :
       sheet[i].hidden /\ \E c \in 1..Len(sheet[i].cells) :
                             ~BlankValue(sheet[i].cells[c].value)
  /\ \E i \in 1..Len(sheet) :
       ~sheet[i].hidden /\ \A c \in 1..Len(sheet[i].cells) :
                              BlankValue(sheet[i].cells[c].value)
  /\ rows_out # << >>
  /\ Len(rows_out) < Len(sheet)

\* the j-th smallest element of a set of numbers
RECURSIVE Nth(_, _)
Nth(S, j) == IF j = 1 THEN SetMin(S) ELSE Nth(S \ {SetMin(S)}, j - 1)

\* C4: with max_rows = N >= 0 the kept rows never number more than N; the
\* result is the first N surviving rows (all of them if fewer survive) and
\* row_count is its length.
C4_AtMostMaxRows ==
  max_rows # << >> =>
    /\ Len(rows_out) <= max_rows[1]
    /\ pc \notin {"scan", "return"} =>
         /\ row_count = Len(rows_out)
         /\ Len(rows_out) = IF Cardinality(SurvivingRows) < max_rows[1]
                              THEN Cardinality(SurvivingRows) ELSE max_rows[1]
         /\ \A j \in 1..Len(rows_out) :
              rows_out[j].row_index = Nth(SurvivingRows, j)

RoleColumnSet(roles) == {roles[ro] : ro \in DOMAIN roles}

IsDescription40(cell) == IsStr(cell.value) /\ Len(Strip(cell.value.s)) = 40

IsUnassignedNumber(cell, roles) ==
  IsNumber(cell.value) /\ cell.col_letter \notin RoleColumnSet(roles)

\* a row with a 40-character description, a number in a column without a role
\* and no article code
C9_Row(row, roles, Pattern(_)) ==
  /\ \E d \in 1..Len(row.cells) : IsDescription40(row.cells[d])
  /\ \E m \in 1..Len(row.cells) : IsUnassignedNumber(row.cells[m], roles)
  /\ \A c \in 1..Len(row.cells) :
       row.cells[c].value = NullV \/ ~Pattern(Strip(Str(row.cells[c].value)))

\* C9 as stated: every such row has is_boq_line = false, whatever mapping the
\* detector produced from the preview.
C9_NeverBoqLine ==
  pc \in {"lines", "done"} =>
    \A k \in 1..Len(rows_out) :
       C9_Row(rows_out[k], column_roles, ThreeDigitGroups) => ~boq_lines[k].is_boq_line

\* C9 amended: for such a row with no other value in it, is_boq_line is true
\* exactly when the unit role is the column of the description.
C9_UnitColumnDecides ==
  pc \in {"lines", "done"} =>
    \A k \in 1..Len(rows_out) :
       (/\ C9_Row(rows_out[k], column_roles, ThreeThenAnyDigitGroups)
        /\ \A c \in 1..Len(rows_out[k].cells) :
             \/ rows_out[k].cells[c].value = NullV
             \/ IsDescription40(rows_out[k].cells[c])
             \/ IsUnassignedNumber(rows_out[k].cells[c], column_roles))
       => (boq_lines[k].is_boq_line <=>
             \E d \in 1..Len(rows_out[k].cells) :
                /\ IsDescription40(rows_out[k].cells[d])
                /\ "unit" \in DOMAIN column_roles
                /\ column_roles["unit"] = rows_out[k].cells[d].col_letter)

\* C9 witness: such a row, classified with the unit role on its description
C9_Witness ==
  /\ pc = "done"
  /\ \E k \in 1..Len(rows_out) :
       /\ C9_Row(rows_out[k], column_roles, ThreeThenAnyDigitGroups)
       /\ "unit" \in DOMAIN column_roles
       /\ boq_lines[k].is_boq_line
       /\ boq_lines[k].quantity = << >>
       /\ boq_lines[k].article_code = << >>

(***************************************************************************)
(* SpecBoq: to_boq_line on one kept row of MaxCells cells under any mapping *)
(* of the three roles it reads; the request stands where column_roles has  *)
(* just been computed.                                                     *)
(***************************************************************************)
MaxCells == 2

BoqValues ==
  {NullV,
   StrV(<<" ", " ">>),
   StrV(<<"0", "0", "3", ".">>),
   StrV(<<" ", "0", "0", "3", ".", "0", "1", "2", ".">>),
   StrV(<<"a", "b", "c", "d", "e", " ">>),
   StrV(<<"R", "e", "m", "b", "l", "a", "i">>),
   IntV(12),
   FloatV(3),
   BoolV(TRUE),
   DateV}

\* any mapping of some of the roles to_boq_line reads to the letters in S
Mappings(S) ==
  UNION {[D -> S] : D \in SUBSET {"unit", "quantity", "weight_kg"}}

\* the request after the extraction of a sheet of one visible row
OneRowExtracted(values) ==
  /\ file_extension = "xlsx"
  /\ sheet = <<[hidden |-> FALSE, cells |-> [c \in 1..Len(values) |-> Plain(values[c])]]>>
  /\ max_rows = << >>
  /\ quantity_header_hint = << >>
  /\ unit_header_hint = << >>
  /\ r = 2
  /\ rows_out = <<[row_index |-> 1,
                   cells |-> [c \in 1..Len(values) |-> Cell(c, values[c])]]>>
  /\ row_count = 1

InitBoq ==
  /\ pc = "roles"
  /\ \E values \in [1..MaxCells -> BoqValues] :
       /\ \E c \in 1..MaxCells : XlsxNonEmpty(values[c])
       /\ OneRowExtracted(values)
  /\ column_roles \in Mappings({get_column_letter(c) : c \in 1..(MaxCells + 1)})
  /\ boq_lines = << >>
  /\ summary = NoTotals

NextBoq ==
  \/ BuildLines
  \/ Summarize

SpecBoq == InitBoq /\ [][NextBoq]_vars

\* the cell of the row at the role's column, as << >> or << cell >>
CellAtRole(row, roles, role) ==
  IF role \notin DOMAIN roles
       \/ \A c \in 1..Len(row.cells) : row.cells[c].col_letter # roles[role]
    THEN << >>
    ELSE <<row.cells[SetMin({c \in 1..Len(row.cells) :
                               row.cells[c].col_letter = roles[role]})]>>

LongText(row) ==
  \E c \in 1..Len(row.cells) :
     IsStr(row.cells[c].value) /\ Len(Strip(row.cells[c].value.s)) > 5

SomeNumber(row) == \E c \in 1..Len(row.cells) : IsNumber(row.cells[c].value)

SomeSignal(line) ==
  \/ line.article_code # << >>
  \/ line.unit # << >>
  \/ line.quantity # << >>
  \/ line.weight_kg # << >>

\* C1: is_boq_line is true exactly when the row has a string cell of trimmed
\* length above 5, a cell holding a number, and a non-null article_code, unit,
\* quantity or weight_kg.
C1_IsBoqLineIff ==
  pc \in {"lines", "done"} =>
    \A k \in 1..Len(rows_out) :
       boq_lines[k].is_boq_line <=>
         LongText(rows_out[k]) /\ SomeNumber(rows_out[k]) /\ SomeSignal(boq_lines[k])

\* C8: quantity (weight_kg) is non-null only for a number in the cell at the
\* role's column, null for null, string, date and boolean values and when the
\* cell or the role is missing; a line qualifies only if some cell is a number.
C8_NumbersOnly ==
  pc \in {"lines", "done"} =>
    \A k \in 1..Len(rows_out) :
       /\ \A role \in {"quantity", "weight_kg"} :
            LET c == CellAtRole(rows_out[k], column_roles, role)
                field == IF role = "quantity" THEN boq_lines[k].quantity
                                              ELSE boq_lines[k].weight_kg
            IN  IF c # << >> /\ IsNumber(c[1].value)
                  THEN field = <<c[1].value.n>>
                  ELSE field = << >>
       /\ boq_lines[k].is_boq_line => SomeNumber(rows_out[k])

\* the rows of C10: one string cell, which is an article code, and a number
C10_Row(row, c) ==
  /\ {i \in 1..Len(row.cells) : IsStr(row.cells[i].value)} = {c}
  /\ ThreeThenAnyDigitGroups(Strip(row.cells[c].value.s))
  /\ SomeNumber(row)

\* C10: a row whose only string cell is an article code and which has a number
\* is a BOQ line exactly when the trimmed code is longer than 5 characters,
\* under every mapping.
C10_CodeCountsAsDescription ==
  pc \in {"lines", "done"} =>
    \A k \in 1..Len(rows_out) : \A c \in 1..Len(rows_out[k].cells) :
       C10_Row(rows_out[k], c) =>
         (boq_lines[k].is_boq_line <=> Len(Strip(rows_out[k].cells[c].value.s)) > 5)

\* C10 witness: such a row with a long code, qualified by the code alone
C10_Witness ==
  /\ pc = "lines"
  /\ \E c \in 1..Len(rows_out[1].cells) :
       /\ C10_Row(rows_out[1], c)
       /\ Len(Strip(rows_out[1].cells[c].value.s)) > 5
  /\ boq_lines[1].is_boq_line
  /\ boq_lines[1].unit = << >>
  /\ boq_lines[1].quantity = << >>
  /\ boq_lines[1].weight_kg = << >>

(***************************************************************************)
(* SpecSum: summarize_boq_lines on any sequence of at most MaxLines lines; *)
(* the request stands where boq_lines has just been computed.              *)
(***************************************************************************)
MaxLines == 3

Lines ==
  {[row_index |-> 1, is_boq_line |-> b, article_code |-> << >>, unit |-> << >>,
    quantity |-> q, weight_kg |-> w] :
     b \in BOOLEAN, q \in {<< >>, <<1>>, <<2>>}, w \in {<< >>, <<5>>}}

InitSum ==
  /\ pc = "lines"
  /\ boq_lines \in SeqsUpTo(Lines, MaxLines)
  /\ file_extension = "xlsx"
  /\ sheet = << >>
  /\ max_rows = << >>
  /\ quantity_header_hint = << >>
  /\ unit_header_hint = << >>
  /\ r = 1
  /\ rows_out = << >>
  /\ row_count = 0
  /\ column_roles = << >>
  /\ summary = NoTotals

NextSum == Summarize

SpecSum == InitSum /\ [][NextSum]_vars

\* the sum of f over a finite set
RECURSIVE SetSum(_, _)
SetSum(S, f) ==
  IF S = {} THEN 0
  ELSE LET x == CHOOSE y \in S : TRUE IN f[x] + SetSum(S \ {x}, f)

Qualifying == {k \in 1..Len(boq_lines) : boq_lines[k].is_boq_line}

\* C2: the totals are the sums of quantity and of weight_kg (absent as 0) over
\* exactly the lines with is_boq_line = true, and 0 when there is none.
C2_TotalsOverBoqLines ==
  pc = "done" =>
    LET Quantity == [k \in 1..Len(boq_lines) |->
                       IF boq_lines[k].quantity = << >> THEN 0
                       ELSE boq_lines[k].quantity[1]]
        Weight == [k \in 1..Len(boq_lines) |->
                     IF boq_lines[k].weight_kg = << >> THEN 0
                     ELSE boq_lines[k].weight_kg[1]]
    IN  /\ summary.total_quantity = SetSum(Qualifying, Quantity)
        /\ summary.total_weight_kg = SetSum(Qualifying, Weight)
        /\ Qualifying = {} => summary = NoTotals

\* C2 witness: totals of lines of which one qualifies and one, with a quantity
\* and a weight, does not
C2_Witness ==
  /\ pc = "done"
  /\ \E k \in 1..Len(boq_lines) :
       /\ ~boq_lines[k].is_boq_line
       /\ boq_lines[k].quantity # << >>
       /\ boq_lines[k].weight_kg # << >>
  /\ \E k \in 1..Len(boq_lines) :
       boq_lines[k].is_boq_line /\ boq_lines[k].quantity # << >>
  /\ summary.total_quantity > 0

(***************************************************************************)
(* SpecArticle: detect_article_code (through to_boq_line) on one kept row  *)
(* of two cells, one of them any text of at most MaxTokens tokens.         *)
(***************************************************************************)
MaxTokens == 6

ArticleTokens ==
  {<<"0", "0", "3">>, <<"1", "2">>, <<".">>, <<"A">>, <<"b">>}

RECURSIVE Concat(_)
Concat(texts) == IF texts = << >> THEN << >> ELSE Head(texts) \o Concat(Tail(texts))

\* the text alone, the text between whitespace, the text before or after a
\* cell that is an article code
ArticleRow(t, variant) ==
  CASE variant = 1 -> <<StrV(t), NullV>>
    [] variant = 2 -> <<StrV(<<" ">> \o t \o <<" ", "\t">>), IntV(12)>>
    [] variant = 3 -> <<StrV(t), StrV(<<"0", "0", "7", ".">>)>>
    [] variant = 4 -> <<StrV(<<"0", "0", "7", ".">>), StrV(t)>>

InitArticle ==
  /\ pc = "roles"
  /\ \E k \in 0..MaxTokens : \E toks \in [1..k -> ArticleTokens] :
       \E variant \in 1..4 :
          LET values == ArticleRow(Concat(toks), variant)
          IN  /\ \E c \in 1..Len(values) : XlsxNonEmpty(values[c])
              /\ OneRowExtracted(values)
  /\ column_roles = << >>
  /\ boq_lines = << >>
  /\ summary = NoTotals

NextArticle == BuildLines

SpecArticle == InitArticle /\ [][NextArticle]_vars

\* the trimmed text of the first cell, in cell order, that fits the pattern
FirstFitting(cells, Pattern(_)) ==
  LET fits == {c \in 1..Len(cells) :
                 cells[c].value # NullV /\ Pattern(Strip(Str(cells[c].value)))}
  IN  IF fits = {} THEN << >> ELSE <<Strip(Str(cells[SetMin(fits)].value))>>

\* C7 as stated: the article code is the trimmed text of the first cell made of
\* groups of exactly three digits separated by ".", optionally "." and one
\* capital, and a final "."; none if no cell is.
C7_ThreeDigitGroups ==
  pc = "lines" =>
    boq_lines[1].article_code = FirstFitting(rows_out[1].cells, ThreeDigitGroups)

\* C7 amended: only the first group has exactly three digits; each later group
\* of digits has one or more.
C7_FirstGroupThreeDigits ==
  pc = "lines" =>
    boq_lines[1].article_code = FirstFitting(rows_out[1].cells, ThreeThenAnyDigitGroups)

\* C7 witness: a padded code with a two-digit group and a letter is returned
\* trimmed
C7_Witness ==
  /\ pc = "lines"
  /\ rows_out[1].cells[1].value
       = StrV(<<" ", "0", "0", "3", ".", "1", "2", ".", "A", ".", " ", "\t">>)
  /\ boq_lines[1].article_code = <<(<<"0", "0", "3", ".", "1", "2", ".", "A", ".">>)>>

(***************************************************************************)
(* SpecHints: a whole transformed request on a sheet of header-like rows,  *)
(* with a quantity hint and a unit hint.                                   *)
(***************************************************************************)
MaxHintRows == 2

QtyTot == <<"Q", "t", "y", " ", "|", " ", "T", "o", "t">>

HintRows ==
  {[hidden |-> FALSE, cells |-> <<Plain(StrV(<<"Q", "t", "y">>)), Plain(StrV(QtyTot))>>],
   [hidden |-> FALSE, cells |-> <<Plain(StrV(<<"T", "o", "t", "a", "l">>)), Plain(NullV)>>],
   [hidden |-> FALSE, cells |-> <<Plain(NullV), Plain(StrV(<<"U", "n">>))>>],
   [hidden |-> FALSE, cells |-> <<Plain(StrV(<<"D", "a", "l", "l", "e">>)), Plain(IntV(12))>>]}

QuantityHints ==
  {<< >>,
   <<(<< >>)>>,
   <<(<<"T", "o", "t">>)>>,
   <<(<<" ">> \o QtyTot)>>,
   <<(<<"z", "z">>)>>}

UnitHints ==
  {<< >>,
   <<(<<"q", "t", "y">>)>>,
   <<(<<"1", "2", " ">>)>>}

InitHints ==
  /\ pc = "scan"
  /\ file_extension \in {"xlsx", "xls"}
  /\ sheet \in SeqsUpTo(HintRows, MaxHintRows)
  /\ max_rows = << >>
  /\ quantity_header_hint \in QuantityHints
  /\ unit_header_hint \in UnitHints
  /\ Fresh

SpecHints == InitHints /\ [][Next]_vars

\* the places (row, cell) of the preview whose normalised text contains the
\* hint normalised the same way
HintPlaces(rows, hint) ==
  {p \in UNION {{<<i, j>> : j \in 1..Len(rows[i].cells)} : i \in 1..Len(rows)} :
     /\ rows[p[1]].cells[p[2]].value # NullV
     /\ Contains(CellNorm(hint), CellNorm(Str(rows[p[1]].cells[p[2]].value)))}

\* the first place in row order, then cell order
FirstPlace(places) ==
  CHOOSE p \in places :
     \A q \in places : p[1] < q[1] \/ (p[1] = q[1] /\ p[2] <= q[2])

\* what the claim gives the role: the column of the first place that has the
\* hint, else what the keyword phase found
HintedRole(rows, role, hint) ==
  IF hint # << >> /\ hint[1] # << >> /\ HintPlaces(rows, hint[1]) # {}
    THEN LET p == FirstPlace(HintPlaces(rows, hint[1]))
         IN  <<rows[p[1]].cells[p[2]].col_letter>>
    ELSE RoleGet(Simplified(rows), role)

\* C5: for the quantity role and for the unit role, a hint found in the preview
\* (both normalised by trim, whitespace collapse, lower case, pipes as spaces)
\* sets the role to the column of the first cell that has it; a hint not found
\* leaves the keyword result.
C5_HintSetsColumn ==
  pc \in {"roles", "lines", "done"} =>
    /\ RoleGet(column_roles, "quantity")
         = HintedRole(Slice(rows_out, PREVIEW_ROWS), "quantity", quantity_header_hint)
    /\ RoleGet(column_roles, "unit")
         = HintedRole(Slice(rows_out, PREVIEW_ROWS), "unit", unit_header_hint)

(***************************************************************************)
(* SpecPreview: a whole transformed request, without hints or max_rows, on *)
(* a sheet of 27 columns (A .. AA): no row or PREVIEW_ROWS - 1 plain rows, *)
(* then at most MaxTail rows that may carry keywords.                      *)
(***************************************************************************)
MaxTail == 2

\* a decoder row with values in columns A, B and AA only
WideRow(hidden, a, b, aa) ==
  [hidden |-> hidden,
   cells |-> [c \in 1..27 |->
                Plain(CASE c = 1 -> a [] c = 2 -> b [] c = 27 -> aa [] OTHER -> NullV)]]

PlainRow == WideRow(FALSE, StrV(<<"x">>), NullV, NullV)

TailRows ==
  {WideRow(FALSE, NullV, StrV(<<"Q", "t", "y">>), StrV(<<" ", "Q", "T", "E">>)),
   WideRow(FALSE, StrV(<<"P", "o", "i", "d", "s", " ", "k", "g">>), NullV, NullV),
   WideRow(TRUE, StrV(<<"T", "o", "t", "a", "l">>), NullV, NullV),
   WideRow(FALSE, NullV, StrV(<<"U", "n", "i", "t">>), IntV(12))}

InitPreview ==
  /\ pc = "scan"
  /\ file_extension \in {"xlsx", "xls"}
  /\ \E n \in {0, PREVIEW_ROWS - 1} : \E tail \in SeqsUpTo(TailRows, MaxTail) :
       sheet = [i \in 1..n |-> PlainRow] \o tail
  /\ max_rows = << >>
  /\ quantity_header_hint = << >>
  /\ unit_header_hint = << >>
  /\ Fresh

SpecPreview == InitPreview /\ [][Next]_vars

\* the columns of the cells, among the first PREVIEW_ROWS kept rows, whose
\* trimmed lower-case text contains a keyword of the role
PreviewHits(role) ==
  LET last == IF Len(rows_out) < PREVIEW_ROWS THEN Len(rows_out) ELSE PREVIEW_ROWS
      Hit(i, j) ==
        /\ rows_out[i].cells[j].value # NullV
        /\ \E k \in HEADER_KEYWORDS(role) :
             Contains(k, Lower(Strip(Str(rows_out[i].cells[j].value))))
  IN  UNION {{rows_out[i].cells[j].col_letter :
                j \in {c \in 1..Len(rows_out[i].cells) : Hit(i, c)}} : i \in 1..last}

\* C6: without hints a role is in column_roles exactly when a cell of the first
\* 30 kept rows has one of its keywords, its column is then the smallest of
\* those columns as strings, and the mapping stays the one the lines are built
\* with, whatever the rows after the 30th hold.
C6_RolesFromPreview ==
  pc \in {"roles", "lines", "done"} =>
    /\ \A role \in Roles :
         /\ role \in DOMAIN column_roles <=> PreviewHits(role) # {}
         /\ role \in DOMAIN column_roles =>
              /\ column_roles[role] \in PreviewHits(role)
              /\ \A d \in PreviewHits(role) : ~StrLess(d, column_roles[role])
    /\ pc \in {"lines", "done"} =>
         \A k \in 1..Len(rows_out) :
            boq_lines[k] = to_boq_line(rows_out[k], column_roles)

\* C6 witness: quantity has keywords in B and AA of the 30th kept row and is
\* AA; the 31st kept row has a weight keyword and weight_kg has no column
C6_Witness ==
  /\ pc = "done"
  /\ Len(rows_out) > PREVIEW_ROWS
  /\ PreviewHits("quantity") = {<<"B">>, <<"A", "A">>}
  /\ column_roles = [ro \in {"quantity"} |-> <<"A", "A">>]
  /\ KeywordHit(rows_out[PREVIEW_ROWS + 1].cells[1], "weight_kg")

====
